---- MODULE Spec2Model ----
(***************************************************************************)
(* DP100 bench power supply: the protocol layer of assets/js/dp100.js.     *)
(*                                                                         *)
(* Bytes are integers 0..255, reports are sequences of bytes (1-based, so  *)
(* the JavaScript offset k is index k+1).  Physical quantities (volts,     *)
(* amperes) are held as whole numbers of 1/10000 unit, so that the wire    *)
(* scaling (raw / 1000 on receipt, value * 1000 on transmission) is a real *)
(* conversion and not the identity.                                        *)
(***************************************************************************)
EXTENDS Integers, Sequences, FiniteSets, TLC

(***************************************************************************)
(* Bounds of the model.                                                    *)
(***************************************************************************)
\* writes that may be pending (settingsQueue entries) at one time
MaxQueue == 2
\* getBasicSettings() promises of connect() that may be unsettled at one time
MaxReads == 1
\* interval timers that may be running at one time
MaxTimers == 1
\* content lengths the codec is run over, next to the longest one
MaxContent == 4
MaxCrcLen == 3
MaxMilli == 1100

(***************************************************************************)
(* Program constants.                                                      *)
(***************************************************************************)
deviceAddr == 251
FnDEVICE_INFO == 16
FnBASIC_INFO == 48
FnBASIC_SET == 53
FnSYSTEM_INFO == 64
FnSYSTEM_SET == 69
FnNONE == 255
MagicOUTPUT == 32
MagicSETTING == 64
MagicREAD == 128
headerLength == 4
CrcInit == 65535
CrcPoly == 40961
\* the sequence argument every BASIC_SET report is sent with
WriteSequence == 0

\* JavaScript null for a numeric argument (an omitted sequence number)
Null == -1
\* JavaScript null for the content argument: a value that is no byte sequence
NoContent == << Null >>


(***************************************************************************)
(* Bit operations on non-negative integers.                                *)
(***************************************************************************)
\* a ^ b
Xor[a \in Nat, b \in Nat] ==
  IF a = 0 THEN b
  ELSE IF b = 0 THEN a
  ELSE (((a % 2) + (b % 2)) % 2) + 2 * Xor[a \div 2, b \div 2]

(***************************************************************************)
(* crc16: CRC-16/MODBUS of a byte sequence.                                *)
(***************************************************************************)
\* for (let j = 0; j < 8; j++) { odd = crc & 1; crc = crc >> 1;
\*                               if (odd) crc = crc ^ 0xA001 }
\* with j the number of rounds still to run
CrcRounds[crc \in 0..CrcInit, j \in 0..8] ==
  IF j = 0 THEN crc
  ELSE CrcRounds[(IF crc % 2 = 1 THEN Xor[crc \div 2, CrcPoly]
                                  ELSE crc \div 2), j - 1]

\* the same loop started from 0 (CRC-16/ARC)
crc16FromZero(bytes) ==
  LET n == Len(bytes)
      Stop(k) == IF k < n THEN k ELSE n
      from[crc \in 0..CrcInit, i \in 1..(n + 1), stop \in 0..n] ==
        IF i > stop THEN crc
        ELSE from[CrcRounds[Xor[crc, bytes[i]], 8], i + 1, stop]
      c1 == from[0, 1, Stop(64)]
      c2 == IF n > 64 THEN from[c1, 65, Stop(128)] ELSE c1
      c3 == IF n > 128 THEN from[c2, 129, Stop(192)] ELSE c2
  IN IF n > 192 THEN from[c3, 193, n] ELSE c3

\* let crc = 0xFFFF; for (const byte of ...) { crc = crc ^ byte; rounds }
crc16(bytes) ==
  LET n == Len(bytes)
      Stop(k) == IF k < n THEN k ELSE n
      \* the loop over bytes i..stop, starting from crc
      from[crc \in 0..CrcInit, i \in 1..(n + 1), stop \in 0..n] ==
        IF i > stop THEN crc
        ELSE from[CrcRounds[Xor[crc, bytes[i]], 8], i + 1, stop]
      \* the same loop, evaluated a stretch of bytes at a time
      c1 == from[CrcInit, 1, Stop(64)]
      c2 == IF n > 64 THEN from[c1, 65, Stop(128)] ELSE c1
      c3 == IF n > 128 THEN from[c2, 129, Stop(192)] ELSE c2
  IN IF n > 192 THEN from[c3, 193, n] ELSE c3

(***************************************************************************)
(* DataView accessors (little-endian), JavaScript offsets.                 *)
(***************************************************************************)
InRange(view, off, n) == off >= 0 /\ off + n <= Len(view)
getUint8(view, off) == view[off + 1]
getUint16(view, off) == view[off + 1] + 256 * view[off + 2]
\* setUint16(off, v, true): the two bytes of v modulo 2^16, low byte first
U16Bytes(v) == << (v % 65536) % 256, (v % 65536) \div 256 >>
\* buffer.slice(from, to): clamped to the buffer
Slice(buf, from, to) ==
  LET hi == IF to > Len(buf) THEN Len(buf) ELSE to
  IN IF from >= hi THEN << >> ELSE SubSeq(buf, from + 1, hi)

(***************************************************************************)
(* sendReport: the bytes of an outgoing report.                            *)
(***************************************************************************)
\* a default that also replaces an empty content
EffectiveContentOrEmpty(content) ==
  IF content = NoContent \/ content = << >> THEN << 0 >> ELSE content

\* content = content || new Uint8Array([0])
EffectiveContent(content) == IF content = NoContent THEN << 0 >> ELSE content

\* a header with the length byte placed before the sequence byte
ReportHeaderSwapped(functionId, content, sequence) ==
  IF sequence = Null
  THEN << deviceAddr, functionId, Len(content) % 256 >>
  ELSE << deviceAddr, functionId, Len(content) % 256, sequence % 256 >>

\* a header that drops a sequence number of 0 as well
ReportHeaderFalsy(functionId, content, sequence) ==
  IF sequence = Null \/ sequence = 0
  THEN << deviceAddr, functionId, Len(content) % 256 >>
  ELSE << deviceAddr, functionId, sequence % 256, Len(content) % 256 >>

ReportHeader(functionId, content, sequence) ==
  IF sequence = Null
  THEN << deviceAddr, functionId, Len(content) % 256 >>
  ELSE << deviceAddr, functionId, sequence % 256, Len(content) % 256 >>

\* a report whose checksum leaves out the header
ReportContentSum(functionId, content, sequence) ==
  LET c == EffectiveContent(content)
      body == ReportHeader(functionId, c, sequence) \o c
  IN body \o U16Bytes(crc16(c))

Report(functionId, content, sequence) ==
  LET c == EffectiveContent(content)
      body == ReportHeader(functionId, c, sequence) \o c
  IN body \o U16Bytes(crc16(body))

(***************************************************************************)
(* inputReportHandler, first half: header, content view, checksum.         *)
(***************************************************************************)
\* a decoder that reads the checksum and does not compare it
DecodeUnchecked(data) ==
  IF ~InRange(data, 0, headerLength) THEN [result |-> "RangeError"]
  ELSE
    LET contentLength == getUint8(data, 3)
    IN IF ~InRange(data, headerLength + contentLength, 2)
       THEN [result |-> "RangeError"]
       ELSE [result |-> "ok", functionType |-> getUint8(data, 1),
             sequence |-> getUint8(data, 2),
             content |-> Slice(data, headerLength, headerLength + contentLength)]

\* a decoder that compares the low byte of the checksum only
DecodeLowByte(data) ==
  IF ~InRange(data, 0, headerLength) THEN [result |-> "RangeError"]
  ELSE
    LET contentLength == getUint8(data, 3)
    IN IF ~InRange(data, headerLength + contentLength, 2)
       THEN [result |-> "RangeError"]
       ELSE
         LET checksum == getUint16(data, headerLength + contentLength)
             computedChecksum ==
               crc16(Slice(data, 0, headerLength + contentLength))
         IN IF computedChecksum % 256 # checksum % 256
            THEN [result |-> "Checksum Failed",
                  expected |-> computedChecksum, received |-> checksum]
            ELSE [result |-> "ok", functionType |-> getUint8(data, 1),
                  sequence |-> getUint8(data, 2),
                  content |->
                    Slice(data, headerLength, headerLength + contentLength)]

\* the outcome is "RangeError" when the report is too short to hold the
\* header or the checksum, "Checksum Failed" on a mismatch, else "ok"
Decode(data) ==
  IF ~InRange(data, 0, headerLength) THEN [result |-> "RangeError"]
  ELSE
    LET functionType == getUint8(data, 1)
        sequence == getUint8(data, 2)
        contentLength == getUint8(data, 3)
        content == Slice(data, headerLength, headerLength + contentLength)
    IN IF ~InRange(data, headerLength + contentLength, 2)
       THEN [result |-> "RangeError"]
       ELSE
         LET checksum == getUint16(data, headerLength + contentLength)
             computedChecksum ==
               crc16(Slice(data, 0, headerLength + contentLength))
         IN IF computedChecksum # checksum
            THEN [result |-> "Checksum Failed",
                  expected |-> computedChecksum, received |-> checksum]
            ELSE [result |-> "ok", functionType |-> functionType,
                  sequence |-> sequence, content |-> content]

(***************************************************************************)
(* FieldCodec: wire integers and physical quantities.                      *)
(***************************************************************************)
\* physical quantities are whole numbers of 1/Unit (0.0001 V, A, C, W)
Unit == 10000
\* getUint16(...) / 1000 and getUint16(...) / 10
Div1000(raw) == raw * (Unit \div 1000)
Div10(raw) == raw * (Unit \div 10)
\* truncation toward zero
Trunc(a, d) == IF a >= 0 THEN a \div d ELSE -((-a) \div d)
\* value * 1000 in exact arithmetic, as setUint16 would store it
Times1000Exact(value) == Trunc(value, Unit \div 1000) % 65536

\* the number of binary digits of n
BitLength[n \in Nat] == IF n = 0 THEN 0 ELSE 1 + BitLength[n \div 2]

\* value * 1000 is a product of IEEE-754 doubles.  The Number that stands
\* for the decimal v / Unit is the double x nearest to it: with
\* 2^k <= v / Unit < 2^(k+1) its 53-bit significand is v * 2^(52-k) / Unit
\* rounded to the nearest integer, ties to even, so x is off by
\* c / (Unit * 2^(52-k)), where -c is the remainder R of that division when
\* it rounds down and c = Unit - R when it rounds up.  x * 1000 is then
\* v / (Unit / 1000) plus a tiny multiple of c, rounded to 53 bits again:
\* when v / Unit is a whole number q of thousandths and c < 0, the product
\* lies just below q and is rounded up to q only if it is within half a
\* unit in the last place of it; otherwise the integer part is q - 1.
ScaledBy1000(v) ==
  LET milli == Unit \div 1000
      q == v \div milli
      up[k \in Nat] == IF Unit * 2 ^ (k + 1) <= v THEN up[k + 1] ELSE k
      down[j \in Nat] == IF v * 2 ^ j < Unit THEN down[j + 1] ELSE j
      k == IF v >= Unit THEN up[0] ELSE -down[1]
      \* (v * 2^j) % Unit
      rem[j \in Nat] == IF j = 0 THEN v % Unit ELSE (2 * rem[j - 1]) % Unit
      R == rem[52 - k]
      quotientOdd == 2 * rem[51 - k] >= Unit
      c == IF 2 * R < Unit \/ (2 * R = Unit /\ ~quotientOdd)
           THEN -R ELSE Unit - R
      s == 2 + k - BitLength[q - 1]
      near == IF s >= 0 THEN (-c) * 2 ^ s <= milli
              ELSE -c <= milli * 2 ^ (-s)
  IN IF v = 0 THEN 0
     ELSE IF v % milli # 0 THEN q
     ELSE IF c >= 0 \/ near THEN q
     ELSE q - 1

\* value * 1000 as setUint16 stores it: the double product, truncated
\* toward zero, modulo 2^16
Times1000(value) ==
  (IF value >= 0 THEN ScaledBy1000(value) ELSE -ScaledBy1000(-value)) % 65536

(***************************************************************************)
(* Settings records.                                                       *)
(***************************************************************************)
\* JavaScript undefined, as a value that is no settings record
Undefined == [undefined |-> TRUE]

\* the own properties of an object; undefined has none
Props(obj) == IF obj = Undefined THEN {} ELSE DOMAIN obj

\* an assignment in which the fields of settings win over those of partial
MergeKeep(settings, partial) ==
  [f \in Props(settings) \cup Props(partial) |->
     IF f \in Props(settings) THEN settings[f] ELSE partial[f]]

\* Object.assign({}, settings, defined entries of partial)
Merge(settings, partial) ==
  [f \in Props(settings) \cup Props(partial) |->
     IF f \in Props(partial) THEN partial[f] ELSE settings[f]]

\* a property as DataView.setUint8/setUint16 take it: a missing one is
\* undefined, which is stored as 0
Num(obj, f) == IF f \in Props(obj) THEN obj[f] ELSE 0

\* reading the last element and leaving it in the queue
PopPeek(queue) ==
  IF Len(queue) = 0 THEN [value |-> Undefined, rest |-> queue]
  ELSE [value |-> queue[Len(queue)], rest |-> queue]

\* settingsQueue.pop(): the last element (undefined when empty) and the rest
Pop(queue) ==
  IF Len(queue) = 0 THEN [value |-> Undefined, rest |-> queue]
  ELSE [value |-> queue[Len(queue)], rest |-> SubSeq(queue, 1, Len(queue) - 1)]

\* a 10-byte content that carries all five fields of the candidate
OutputContentAll(basicSet) ==
  << MagicOUTPUT, Num(basicSet, "state") % 256 >>
    \o U16Bytes(Times1000(Num(basicSet, "vo_set")))
    \o U16Bytes(Times1000(Num(basicSet, "io_set")))
    \o U16Bytes(Times1000(Num(basicSet, "ovp_set")))
    \o U16Bytes(Times1000(Num(basicSet, "ocp_set")))

\* the 10-byte content setBasicOutput builds
OutputContent(basicSet) ==
  << MagicOUTPUT, Num(basicSet, "state") % 256 >>
    \o U16Bytes(Times1000(Num(basicSet, "vo_set")))
    \o U16Bytes(Times1000(Num(basicSet, "io_set")))
    \o << 0, 0, 0, 0 >>

\* the 10-byte content setBasicSettings builds
SettingContent(basicSet) ==
  << MagicSETTING, 0, 0, 0, 0, 0 >>
    \o U16Bytes(Times1000(Num(basicSet, "ovp_set")))
    \o U16Bytes(Times1000(Num(basicSet, "ocp_set")))

(***************************************************************************)
(* The receive* callbacks: the object each one stores.                     *)
(***************************************************************************)
\* a callback that scales the temperatures like the voltages
receiveBasicInfoMilli(c) ==
  [vIn |-> Div1000(getUint16(c, 0)), vOut |-> Div1000(getUint16(c, 2)),
   iOut |-> Div1000(getUint16(c, 4)), voMax |-> Div1000(getUint16(c, 6)),
   temp1 |-> Div1000(getUint16(c, 8)), temp2 |-> Div1000(getUint16(c, 10)),
   dc5V |-> Div1000(getUint16(c, 12)),
   outMode |-> getUint8(c, 14), workSt |-> getUint8(c, 15)]

receiveBasicInfo(c) ==
  [vIn |-> Div1000(getUint16(c, 0)), vOut |-> Div1000(getUint16(c, 2)),
   iOut |-> Div1000(getUint16(c, 4)), voMax |-> Div1000(getUint16(c, 6)),
   temp1 |-> Div10(getUint16(c, 8)), temp2 |-> Div10(getUint16(c, 10)),
   dc5V |-> Div1000(getUint16(c, 12)),
   outMode |-> getUint8(c, 14), workSt |-> getUint8(c, 15)]

\* a callback that reads every field one byte early
receiveBasicSettingsShifted(c) ==
  [state |-> getUint8(c, 0),
   vo_set |-> Div1000(getUint16(c, 1)), io_set |-> Div1000(getUint16(c, 3)),
   ovp_set |-> Div1000(getUint16(c, 5)), ocp_set |-> Div1000(getUint16(c, 7))]

\* the ack field is read and logged, and is no part of this.settings
receiveBasicSettings(c) ==
  [state |-> getUint8(c, 1),
   vo_set |-> Div1000(getUint16(c, 2)), io_set |-> Div1000(getUint16(c, 4)),
   ovp_set |-> Div1000(getUint16(c, 6)), ocp_set |-> Div1000(getUint16(c, 8))]

receiveSystemInfo(c) ==
  [otp |-> getUint16(c, 0) * Unit, opp |-> Div10(getUint16(c, 2)),
   backlight |-> getUint8(c, 4), volume |-> getUint8(c, 5),
   reverse_protection |-> getUint8(c, 6), audio_out |-> getUint8(c, 7)]

(***************************************************************************)
(* Inputs: what callers pass and what the device sends.                    *)
(***************************************************************************)
\* arguments of setBasicOutput: output on at 12 V (io_set undefined)
OutputInputs == { [state |-> 1, vo_set |-> 12 * Unit] }
\* arguments of setBasicSettings: OVP 31 V (ocp_set undefined)
SettingInputs == { [ovp_set |-> 31 * Unit] }

\* a well-formed frame as the device sends it: always a 4-byte header
DeviceFrame(functionType, sequence, content) ==
  Report(functionType, content, sequence)

\* BASIC_SET acknowledgement: one content byte
AckBytes == { 0, 1, 255 }
AckFrame(b) == DeviceFrame(FnBASIC_SET, 0, << b >>)
\* BASIC_SET settings: state 0, 5.000 V, 1.000 A, OVP 30.500 V, OCP 5.050 A
SettingsFrame ==
  DeviceFrame(FnBASIC_SET, 0,
    << MagicREAD, 0 >> \o U16Bytes(5000) \o U16Bytes(1000)
      \o U16Bytes(30500) \o U16Bytes(5050))
\* BASIC_INFO: vIn 20 V, vOut 12 V, iOut 0.5 A, voMax 19 V, 30.5 and 31 C,
\* 5 V rail, CV, normal
InfoFrame ==
  DeviceFrame(FnBASIC_INFO, 0,
    U16Bytes(20000) \o U16Bytes(12000) \o U16Bytes(500) \o U16Bytes(19000)
      \o U16Bytes(305) \o U16Bytes(310) \o U16Bytes(5000) \o << 1, 0 >>)
\* SYSTEM_INFO: OTP 80 C, OPP 105 W, backlight 4, volume 2, flags 1 and 0
SystemFrame ==
  DeviceFrame(FnSYSTEM_INFO, 0,
    U16Bytes(80) \o U16Bytes(1050) \o << 4, 2, 1, 0 >>)
\* DEVICE_INFO: 40 content bytes
DeviceInfoFrame == DeviceFrame(FnDEVICE_INFO, 0, [i \in 1..40 |-> i])
\* a function the handler has no case for
UnhandledFrame == DeviceFrame(FnSYSTEM_SET, 0, << 1 >>)

\* transport corruption: the first content byte altered, or the last
\* checksum byte altered
FlipContent(data) == [data EXCEPT ![headerLength + 1] = Xor[@, 1]]
FlipChecksum(data) == [data EXCEPT ![Len(data)] = Xor[@, 128]]

ValidReports ==
  { AckFrame(b) : b \in AckBytes }
    \cup { SettingsFrame, InfoFrame, SystemFrame, DeviceInfoFrame,
           UnhandledFrame }
CorruptReports ==
  { FlipChecksum(AckFrame(1)), FlipContent(SettingsFrame),
    FlipChecksum(InfoFrame), FlipContent(SystemFrame) }
Reports == ValidReports \cup CorruptReports

\* Decode tabulated over the reports the model delivers
Decoded == [data \in Reports |-> Decode(data)]

(***************************************************************************)
(* State.                                                                  *)
(***************************************************************************)
VARIABLES
  device,         \* this.device: "null", "opening" (chosen, not yet open), "open"
  settings,       \* this.settings: Undefined or the confirmed settings
  settingsQueue,  \* this.settingsQueue: candidates awaiting acknowledgement
  queueSeq,       \* the sequence argument each queued write was sent with
  inFlight,       \* device side: writes received and not yet acknowledged (count)
  info,           \* this.info
  system,         \* this.system
  reads,          \* getBasicSettings() promises of connect() not yet settled
  updateLoop,     \* this.updateLoop: "unset", "live", "cleared"
  timers,         \* interval timers that are running
  sent,           \* reports the transport accepted in the last step
  event,          \* the last operation and how it ended
  tHistory,       \* DP100Element.tHistory: time of each sample kept
  vHistory,       \* DP100Element.vHistory: output voltage of each sample kept
  iHistory,       \* DP100Element.iHistory: output current of each sample kept
  pHistory        \* DP100Element.pHistory: output power of each sample kept

vars == << device, settings, settingsQueue, queueSeq, inFlight, info, system, reads,
           updateLoop, timers, sent, event,
           tHistory, vHistory, iHistory, pHistory >>

session == << settings, settingsQueue, queueSeq, info, system >>
polling == << reads, updateLoop, timers >>
\* the element's graph data, which only its receiveBasicInfo writes
history == << tHistory, vHistory, iHistory, pHistory >>

Ev(op, result) == [op |-> op, result |-> result]

Init ==
  /\ device = "null"
  /\ settings = Undefined
  /\ settingsQueue = << >>
  /\ queueSeq = << >>
  /\ inFlight = 0
  /\ info = Undefined
  /\ system = Undefined
  /\ reads = 0
  /\ updateLoop = "unset"
  /\ timers = 0
  /\ sent = << >>
  /\ tHistory = << >>
  /\ vHistory = << >>
  /\ iHistory = << >>
  /\ pHistory = << >>
  /\ event = Ev("new", "ok")

(***************************************************************************)
(* Transport.                                                              *)
(***************************************************************************)
\* how this.device.sendReport(0, report) ends: a TypeError when this.device
\* is null, a rejected promise when the device is not open or the transfer
\* fails (ok = FALSE), else the report is on the wire
SendOutcome(ok) ==
  IF device = "null" THEN "TypeError"
  ELSE IF device = "open" /\ ok THEN "sent"
  ELSE "rejected"

Transmitted(report, ok) ==
  IF SendOutcome(ok) = "sent" THEN << report >> ELSE << >>

\* the device side: the number of writes that reached the device and that it
\* has not acknowledged yet; it acknowledges them oldest first
Received(n, ok) == IF SendOutcome(ok) = "sent" THEN n + 1 ELSE n
Acknowledged(n, d) ==
  IF d.result = "ok" /\ d.functionType = FnBASIC_SET /\ Len(d.content) = 1
       /\ n > 0
  THEN n - 1 ELSE n

SystemInfoRequest == Report(FnSYSTEM_INFO, NoContent, Null)
DeviceInfoRequest == Report(FnDEVICE_INFO, NoContent, Null)
BasicInfoRequest == Report(FnBASIC_INFO, NoContent, Null)
\* getBasicSettings()
BasicSetRead == Report(FnBASIC_SET, << MagicREAD >>, 0)

(***************************************************************************)
(* connect(), the disconnect listener and the poll timer.                  *)
(***************************************************************************)
\* connect() up to `await this.device.open()`: a device is chosen
connect ==
  /\ device = "null"
  /\ device' = "opening"
  /\ sent' = << >>
  /\ event' = Ev("connect", "requestDevice")
  /\ UNCHANGED << session, inFlight, polling, history >>

\* open() resolves: the listeners are attached and SYSTEM_INFO, DEVICE_INFO
\* and the BASIC_SET read are sent
opened ==
  /\ device = "opening"
  /\ reads < MaxReads
  /\ device' = "open"
  /\ reads' = reads + 1
  /\ sent' = << SystemInfoRequest, DeviceInfoRequest, BasicSetRead >>
  /\ event' = Ev("connect", "open")
  /\ UNCHANGED << session, inFlight, updateLoop, timers, history >>

\* getBasicSettings() settles; .then(...) starts the poll timer
readSettled(ok) ==
  /\ reads > 0
  /\ reads' = reads - 1
  /\ IF ok
     THEN /\ timers < MaxTimers
          /\ updateLoop' = "live"
          /\ timers' = timers + 1
          /\ event' = Ev("getBasicSettings", "setInterval")
     ELSE /\ UNCHANGED << updateLoop, timers >>
          /\ event' = Ev("getBasicSettings", "rejected")
  /\ sent' = << >>
  /\ UNCHANGED << device, session, inFlight, history >>

\* an interval callback that waits for the pending writes to be acknowledged
pollTickIdle(ok) ==
  /\ timers > 0
  /\ settingsQueue = << >>
  /\ sent' = Transmitted(BasicInfoRequest, ok)
  /\ event' = Ev("poll", SendOutcome(ok))
  /\ UNCHANGED << device, session, inFlight, polling, history >>

\* the interval callback: this.sendReport(FUNCTIONS.BASIC_INFO)
pollTick(ok) ==
  /\ timers > 0
  /\ sent' = Transmitted(BasicInfoRequest, ok)
  /\ event' = Ev("poll", SendOutcome(ok))
  /\ UNCHANGED << device, session, inFlight, polling, history >>

\* the 'disconnect' listener
disconnect ==
  /\ device = "open"
  /\ device' = "null"
  /\ IF updateLoop = "live"
     THEN updateLoop' = "cleared" /\ timers' = timers - 1
     ELSE UNCHANGED << updateLoop, timers >>
  /\ sent' = << >>
  /\ event' = Ev("disconnect", "ok")
  /\ inFlight' = 0
  /\ UNCHANGED << session, reads, history >>

(***************************************************************************)
(* setBasicOutput and setBasicSettings.                                    *)
(***************************************************************************)
\* a guard that lets every write through
SettingsLoadedAlways(s) == TRUE
\* if (this.settings === undefined) throw new Error('Settings not loaded')
SettingsLoaded(s) == s # Undefined

\* a setBasicOutput report numbered 1
OutputReportNumbered(basicSet) ==
  Report(FnBASIC_SET, OutputContent(basicSet), WriteSequence + 1)
\* the report each write sends
OutputReport(basicSet) ==
  Report(FnBASIC_SET, OutputContent(basicSet), WriteSequence)
SettingReport(basicSet) ==
  Report(FnBASIC_SET, SettingContent(basicSet), WriteSequence)

\* a setBasicOutput that assigns the merged settings to this.settings at once
setBasicOutputInPlace(partial, ok) ==
  /\ SettingsLoaded(settings)
  /\ settings' = Merge(settings, partial)
  /\ sent' = Transmitted(OutputReport(settings'), ok)
  /\ event' = Ev("setBasicOutput", SendOutcome(ok))
  /\ inFlight' = Received(inFlight, ok)
  /\ UNCHANGED << device, settingsQueue, queueSeq, info, system, polling, history >>
\* async setBasicOutput ({ state, vo_set, io_set }); the transport decides ok
setBasicOutput(partial, ok) ==
  IF ~SettingsLoaded(settings)
  THEN /\ event' = Ev("setBasicOutput", "Settings not loaded")
       /\ sent' = << >>
       /\ UNCHANGED << device, session, inFlight, polling, history >>
  ELSE LET basicSet == Merge(settings, partial)
       IN /\ Len(settingsQueue) < MaxQueue
          /\ settingsQueue' = Append(settingsQueue, basicSet)
          /\ queueSeq' = Append(queueSeq, WriteSequence)
          /\ sent' = Transmitted(OutputReport(basicSet), ok)
          /\ event' = Ev("setBasicOutput", SendOutcome(ok))
          /\ inFlight' = Received(inFlight, ok)
          /\ UNCHANGED << device, settings, info, system, polling, history >>

\* a write that overwrites the newest pending candidate
setBasicSettingsReplace(partial, ok) ==
  IF ~SettingsLoaded(settings)
  THEN /\ event' = Ev("setBasicSettings", "Settings not loaded")
       /\ sent' = << >>
       /\ UNCHANGED << device, session, inFlight, polling, history >>
  ELSE LET basicSet == Merge(settings, partial)
       IN /\ Len(settingsQueue) < MaxQueue
          /\ settingsQueue' =
               IF settingsQueue = << >> THEN << basicSet >>
               ELSE [settingsQueue EXCEPT ![Len(settingsQueue)] = basicSet]
          /\ queueSeq' =
               IF queueSeq = << >> THEN << WriteSequence >> ELSE queueSeq
          /\ sent' = Transmitted(SettingReport(basicSet), ok)
          /\ event' = Ev("setBasicSettings", SendOutcome(ok))
          /\ inFlight' = Received(inFlight, ok)
          /\ UNCHANGED << device, settings, info, system, polling, history >>

\* async setBasicSettings ({ ovp_set, ocp_set })
setBasicSettings(partial, ok) ==
  IF ~SettingsLoaded(settings)
  THEN /\ event' = Ev("setBasicSettings", "Settings not loaded")
       /\ sent' = << >>
       /\ UNCHANGED << device, session, inFlight, polling, history >>
  ELSE LET basicSet == Merge(settings, partial)
       IN /\ Len(settingsQueue) < MaxQueue
          /\ settingsQueue' = Append(settingsQueue, basicSet)
          /\ queueSeq' = Append(queueSeq, WriteSequence)
          /\ sent' = Transmitted(SettingReport(basicSet), ok)
          /\ event' = Ev("setBasicSettings", SendOutcome(ok))
          /\ inFlight' = Received(inFlight, ok)
          /\ UNCHANGED << device, settings, info, system, polling, history >>

(***************************************************************************)
(* inputReportHandler, second half: the switch on the function type.       *)
(***************************************************************************)
\* a test that takes every single byte for an acknowledgement
IsAckAnyByte(c) == Len(c) = 1

\* contentView.byteLength === 1 && contentView.getUint8(0)
IsAck(c) == Len(c) = 1 /\ getUint8(c, 0) # 0

\* a handler whose default case discards the telemetry
DispatchDefaultClears(d) ==
  LET c == d.content
      Same(result) ==
        /\ event' = Ev("inputreport", result)
        /\ UNCHANGED session
  IN
  IF d.result # "ok" THEN Same(d.result)
  ELSE IF d.functionType = FnBASIC_INFO THEN
    IF ~InRange(c, 0, 16) THEN Same("RangeError")
    ELSE /\ info' = receiveBasicInfo(c)
         /\ event' = Ev("inputreport", "receiveBasicInfo")
         /\ UNCHANGED << settings, settingsQueue, queueSeq, system >>
  ELSE IF d.functionType = FnBASIC_SET THEN
    IF IsAck(c)
    THEN /\ settings' = Pop(settingsQueue).value
         /\ settingsQueue' = Pop(settingsQueue).rest
         /\ queueSeq' = Pop(queueSeq).rest
         /\ event' = Ev("inputreport", "ack")
         /\ UNCHANGED << info, system >>
    ELSE IF ~InRange(c, 0, 10) THEN Same("RangeError")
    ELSE /\ settings' = receiveBasicSettings(c)
         /\ event' = Ev("inputreport", "receiveBasicSettings")
         /\ UNCHANGED << settingsQueue, queueSeq, info, system >>
  ELSE IF d.functionType = FnSYSTEM_INFO THEN
    IF ~InRange(c, 0, 8) THEN Same("RangeError")
    ELSE /\ system' = receiveSystemInfo(c)
         /\ event' = Ev("inputreport", "receiveSystemInfo")
         /\ UNCHANGED << settings, settingsQueue, queueSeq, info >>
  ELSE IF d.functionType = FnDEVICE_INFO THEN
    IF ~InRange(c, 0, 40) THEN Same("RangeError") ELSE Same("deviceInfo")
  ELSE /\ info' = Undefined
       /\ event' = Ev("inputreport", "Unhandled function")
       /\ UNCHANGED << settings, settingsQueue, queueSeq, system >>

\* a handler that keeps the first telemetry it decoded
DispatchKeepsFirst(d) ==
  LET c == d.content
      Same(result) ==
        /\ event' = Ev("inputreport", result)
        /\ UNCHANGED session
  IN
  IF d.result # "ok" THEN Same(d.result)
  ELSE IF d.functionType = FnBASIC_INFO THEN
    IF ~InRange(c, 0, 16) THEN Same("RangeError")
    ELSE /\ info' = (IF info = Undefined THEN receiveBasicInfo(c) ELSE info)
         /\ event' = Ev("inputreport", "receiveBasicInfo")
         /\ UNCHANGED << settings, settingsQueue, queueSeq, system >>
  ELSE IF d.functionType = FnBASIC_SET THEN
    IF IsAck(c)
    THEN /\ settings' = Pop(settingsQueue).value
         /\ settingsQueue' = Pop(settingsQueue).rest
         /\ queueSeq' = Pop(queueSeq).rest
         /\ event' = Ev("inputreport", "ack")
         /\ UNCHANGED << info, system >>
    ELSE IF ~InRange(c, 0, 10) THEN Same("RangeError")
    ELSE /\ settings' = receiveBasicSettings(c)
         /\ event' = Ev("inputreport", "receiveBasicSettings")
         /\ UNCHANGED << settingsQueue, queueSeq, info, system >>
  ELSE IF d.functionType = FnSYSTEM_INFO THEN
    IF ~InRange(c, 0, 8) THEN Same("RangeError")
    ELSE /\ system' = receiveSystemInfo(c)
         /\ event' = Ev("inputreport", "receiveSystemInfo")
         /\ UNCHANGED << settings, settingsQueue, queueSeq, info >>
  ELSE IF d.functionType = FnDEVICE_INFO THEN
    IF ~InRange(c, 0, 40) THEN Same("RangeError") ELSE Same("deviceInfo")
  ELSE Same("Unhandled function")

\* what the handler does with a decoded report; a content view too short for
\* a field read throws a RangeError before anything is assigned
Dispatch(d) ==
  LET c == d.content
      Same(result) ==
        /\ event' = Ev("inputreport", result)
        /\ UNCHANGED session
  IN
  IF d.result # "ok" THEN Same(d.result)
  ELSE IF d.functionType = FnBASIC_INFO THEN
    IF ~InRange(c, 0, 16) THEN Same("RangeError")
    ELSE /\ info' = receiveBasicInfo(c)
         /\ event' = Ev("inputreport", "receiveBasicInfo")
         /\ UNCHANGED << settings, settingsQueue, queueSeq, system >>
  ELSE IF d.functionType = FnBASIC_SET THEN
    IF IsAck(c)
    THEN /\ settings' = Pop(settingsQueue).value
         /\ settingsQueue' = Pop(settingsQueue).rest
         /\ queueSeq' = Pop(queueSeq).rest
         /\ event' = Ev("inputreport", "ack")
         /\ UNCHANGED << info, system >>
    ELSE IF ~InRange(c, 0, 10) THEN Same("RangeError")
    ELSE /\ settings' = receiveBasicSettings(c)
         /\ event' = Ev("inputreport", "receiveBasicSettings")
         /\ UNCHANGED << settingsQueue, queueSeq, info, system >>
  ELSE IF d.functionType = FnSYSTEM_INFO THEN
    IF ~InRange(c, 0, 8) THEN Same("RangeError")
    ELSE /\ system' = receiveSystemInfo(c)
         /\ event' = Ev("inputreport", "receiveSystemInfo")
         /\ UNCHANGED << settings, settingsQueue, queueSeq, info >>
  ELSE IF d.functionType = FnDEVICE_INFO THEN
    IF ~InRange(c, 0, 40) THEN Same("RangeError") ELSE Same("deviceInfo")
  ELSE Same("Unhandled function")

\* a listener that gives the device up when a report fails to decode
inputReportHandlerFatal(data) ==
  /\ device = "open"
  /\ Dispatch(Decoded[data])
  /\ inFlight' = Acknowledged(inFlight, Decoded[data])
  /\ sent' = << >>
  /\ device' = IF Decoded[data].result = "ok"
                  /\ Decoded[data].functionType # FnSYSTEM_SET
               THEN device ELSE "null"
  /\ UNCHANGED << polling, history >>

\* the 'inputreport' listener, attached to an open device
inputReportHandler(data) ==
  /\ device = "open"
  /\ Dispatch(Decoded[data])
  /\ inFlight' = Acknowledged(inFlight, Decoded[data])
  /\ sent' = << >>
  /\ UNCHANGED << device, polling, history >>

(***************************************************************************)
(* The session.                                                            *)
(***************************************************************************)
Next ==
  \/ connect
  \/ opened
  \/ \E ok \in BOOLEAN : readSettled(ok)
  \/ \E ok \in BOOLEAN : pollTick(ok)
  \/ disconnect
  \/ \E partial \in OutputInputs, ok \in BOOLEAN : setBasicOutput(partial, ok)
  \/ \E partial \in SettingInputs, ok \in BOOLEAN :
       setBasicSettings(partial, ok)
  \/ \E data \in Reports : inputReportHandler(data)

Spec == Init /\ [][Next]_vars

(***************************************************************************)
(* Properties of the session.                                              *)
(***************************************************************************)
WriteOps == { "setBasicOutput", "setBasicSettings" }
SendFailures == { "rejected", "TypeError" }
\* the acknowledgement reports, tabulated
AckReport == [b \in AckBytes |-> AckFrame(b)]
\* the settings the device reports in SettingsFrame
Baseline == receiveBasicSettings(Decoded[SettingsFrame].content)
\* the checksum the report carries in its last two bytes against the checksum
\* of everything before them
ChecksumDiffers == [data \in Reports |->
  getUint16(data, Len(data) - 2) # crc16(Slice(data, 0, Len(data) - 2))]

C2_AckMatchesSequence ==
  [][\A b \in AckBytes :
       (Len(settingsQueue) >= 2 /\ inFlight = Len(settingsQueue)
          /\ Head(settingsQueue) # settingsQueue[Len(settingsQueue)]
          /\ inputReportHandler(AckReport[b]))
       => /\ (\E i \in 1..Len(settingsQueue) : queueSeq[i] = b)
               => \E i \in 1..Len(settingsQueue) :
                    /\ queueSeq[i] = b
                    /\ settings' = settingsQueue[i]
                    /\ Len(settingsQueue') = Len(settingsQueue) - 1
          /\ \A i \in 1..Len(settingsQueue) :
               (settings' = settingsQueue[i] /\ settings' # settings)
                 => queueSeq[i] = b]_vars

\* C3: an acknowledgement whose value is the sequence number of no pending
\* write leaves the confirmed settings as they are.
C3_UnmatchedAckIgnored ==
  [][\A b \in AckBytes :
       (inputReportHandler(AckReport[b])
          /\ \A i \in 1..Len(settingsQueue) : queueSeq[i] # b)
       => settings' = settings]_vars

\* C4: a write called while this.settings is undefined ends with the error
\* 'Settings not loaded', transmits nothing and queues nothing.
C4_WriteBeforeLoad ==
  [][(settings = Undefined /\ event'.op \in WriteOps)
       => /\ event'.result = "Settings not loaded"
          /\ sent' = << >>
          /\ UNCHANGED << settingsQueue, queueSeq, settings >>]_vars

\* C4 witness: a write has thrown on an open device with nothing loaded
C4_Witness ==
  /\ event.op \in WriteOps
  /\ event.result = "Settings not loaded"
  /\ device = "open"
  /\ settings = Undefined
  /\ settingsQueue = << >>

\* C5: a write leaves the confirmed settings as they were and only appends
\* its merged candidate to the queue; the confirmed settings change in no
\* step other than the handling of a valid BASIC_SET report.
C5_WriteKeepsSettings ==
  [][/\ event'.op \in WriteOps
          => /\ settings' = settings
             /\ SettingsLoaded(settings)
                  => \E partial \in OutputInputs \cup SettingInputs :
                       settingsQueue' =
                         Append(settingsQueue, Merge(settings, partial))
     /\ settings' # settings
          => /\ event'.op = "inputreport"
             /\ event'.result \in { "ack", "receiveBasicSettings" }]_vars

\* C5 witness: a write is pending whose candidate differs from the confirmed
\* settings, which are still the ones the device reported
C5_Witness ==
  /\ event.op \in WriteOps
  /\ event.result = "sent"
  /\ settings = Baseline
  /\ Len(settingsQueue) >= 1
  /\ settingsQueue[Len(settingsQueue)] # settings

\* C6: a write whose send fails (the promise rejects, or this.device is null)
\* leaves the pending writes as they were before the call.
C6_FailedSendNotPending ==
  [][(event'.op \in WriteOps /\ event'.result \in SendFailures)
       => settingsQueue' = settingsQueue]_vars

\* C7: a report whose trailing checksum differs from the recomputed one is
\* dropped: telemetry, confirmed settings, system information and the pending
\* writes stay as they were, and no receive callback runs.
C7_ChecksumMismatchDropped ==
  [][\A data \in Reports :
       (ChecksumDiffers[data] /\ inputReportHandler(data))
       => /\ UNCHANGED << settings, settingsQueue, queueSeq, info, system >>
          /\ event' = Ev("inputreport", "Checksum Failed")]_vars

\* C7 witness: a corrupted report has been dropped while settings were loaded
\* and a write was pending
C7_Witness ==
  /\ event = Ev("inputreport", "Checksum Failed")
  /\ SettingsLoaded(settings)
  /\ Len(settingsQueue) >= 1
  /\ \E data \in CorruptReports : ChecksumDiffers[data]

\* C8: the device acknowledges the writes it received oldest first; with
\* every pending write received and two or more of them pending, an
\* acknowledgement installs the candidate of the oldest and leaves the newer
\* ones pending, so that the last acknowledgement installs the newest.
C8_LastAckWins ==
  [][\A b \in AckBytes \ { 0 } :
       (Len(settingsQueue) >= 2 /\ inFlight = Len(settingsQueue)
          /\ inputReportHandler(AckReport[b]))
       => /\ settings' = Head(settingsQueue)
          /\ settingsQueue' = Tail(settingsQueue)]_vars

ContentLengths == (0..MaxContent) \cup { 250 }
ContentOf(n) == [i \in 1..n |-> (i * 37) % 256]
FunctionIds ==
  { FnDEVICE_INFO, FnBASIC_INFO, FnBASIC_SET, FnSYSTEM_INFO, FnSYSTEM_SET,
    FnNONE }
\* the sequence argument: null (the default), or a number
SequenceArgs == { Null, 0, 1, 255 }
CodecInputs ==
  [functionId : FunctionIds,
   content : { ContentOf(n) : n \in ContentLengths },
   sequence : SequenceArgs]

InitCodec ==
  /\ device = "null"
  /\ settings = Undefined
  /\ settingsQueue = << >>
  /\ queueSeq = << >>
  /\ inFlight = 0
  /\ info = Undefined
  /\ system = Undefined
  /\ reads = 0
  /\ updateLoop = "unset"
  /\ timers = 0
  /\ sent = << >>
  /\ tHistory = << >>
  /\ vHistory = << >>
  /\ iHistory = << >>
  /\ pHistory = << >>
  /\ \E args \in CodecInputs : event = [op |-> "input", args |-> args]

\* sendReport(functionId, content, sequence) builds the report
encode ==
  /\ event.op = "input"
  /\ sent' = << Report(event.args.functionId, event.args.content,
                       event.args.sequence) >>
  /\ event' = [op |-> "encode", args |-> event.args]
  /\ UNCHANGED << device, session, inFlight, polling, history >>

\* inputReportHandler reads the header, the content and the checksum of it
decode ==
  /\ event.op = "encode"
  /\ event' = [op |-> "decode", args |-> event.args,
               decoded |-> Decode(sent[1])]
  /\ UNCHANGED << device, session, inFlight, polling, sent, history >>

NextCodec == encode \/ decode

SpecCodec == InitCodec /\ [][NextCodec]_vars

\* the decoded report is the one that was encoded
Recovered(args, d) ==
  /\ d.result = "ok"
  /\ d.functionType = args.functionId
  /\ d.content = args.content

\* C10 (amended): when a sequence number is supplied, decoding the encoded
\* report passes the checksum check and recovers functionId, content and
\* sequence exactly, for contents of 0 to 250 bytes; when none is supplied
\* the report has a three-byte header, the decoder still reads four bytes of
\* header, and the content is not recovered.
C10_RoundTrip ==
  event.op = "decode"
    => IF event.args.sequence # Null
       THEN /\ Recovered(event.args, event.decoded)
            /\ event.decoded.sequence = event.args.sequence
       ELSE ~Recovered(event.args, event.decoded)

\* C10 witness: a 250-byte content sent with a sequence number has come back
C10_Witness ==
  /\ event.op = "decode"
  /\ event.args.sequence # Null
  /\ Len(event.args.content) = 250
  /\ event.decoded.result = "ok"
  /\ event.decoded.content = event.args.content

\* C10 as stated: the round trip recovers the inputs for every sequence
\* choice, the one without a sequence number included
C10_AsStated ==
  event.op = "decode"
    => /\ Recovered(event.args, event.decoded)
       /\ event.args.sequence # Null
            => event.decoded.sequence = event.args.sequence

(***************************************************************************)
(* The two writes on their own, over a wider range of arguments.           *)
(***************************************************************************)
\* an argument that is undefined, and one that has a value
None == << >>
Some(v) == << v >>
\* Object.entries({...}).filter(([k, v]) => v !== undefined)
Supplied(args) ==
  [f \in { g \in DOMAIN args : args[g] # None } |-> args[f][1]]

\* arguments of setBasicOutput: output on, 12 V, 2.5 A, and two setpoints
\* that do not fit 16 bits once scaled: 70 V and -1 A
OutputArgs ==
  { [state |-> Some(1), vo_set |-> None, io_set |-> None],
    [state |-> None, vo_set |-> Some(12 * Unit), io_set |-> None],
    [state |-> None, vo_set |-> None, io_set |-> Some(25 * (Unit \div 10))],
    [state |-> None, vo_set |-> Some(70 * Unit), io_set |-> None],
    [state |-> None, vo_set |-> None, io_set |-> Some(-1 * Unit)] }
\* arguments of setBasicSettings: OVP 31 V, OCP 4 A, and OVP 66 V
SettingArgs ==
  { [ovp_set |-> Some(31 * Unit), ocp_set |-> None],
    [ovp_set |-> None, ocp_set |-> Some(4 * Unit)],
    [ovp_set |-> Some(66 * Unit), ocp_set |-> None] }

\* confirmed settings: the ones the device reported, and the ones an
\* acknowledged setBasicOutput left
LoadedSettings ==
  { Baseline } \cup { Merge(Baseline, partial) : partial \in OutputInputs }

\* an open device whose settings are loaded
InitWrites ==
  /\ device = "open"
  /\ settings \in LoadedSettings
  /\ settingsQueue = << >>
  /\ queueSeq = << >>
  /\ inFlight = 0
  /\ info = Undefined
  /\ system = Undefined
  /\ reads = 1
  /\ updateLoop = "unset"
  /\ timers = 0
  /\ sent = << >>
  /\ tHistory = << >>
  /\ vHistory = << >>
  /\ iHistory = << >>
  /\ pHistory = << >>
  /\ event = Ev("inputreport", "receiveBasicSettings")

NextWrites ==
  \/ \E args \in OutputArgs, ok \in BOOLEAN :
       setBasicOutput(Supplied(args), ok)
  \/ \E args \in SettingArgs, ok \in BOOLEAN :
       setBasicSettings(Supplied(args), ok)

SpecWrites == InitWrites /\ [][NextWrites]_vars

\* the candidate of the write that was called last
LastCandidate == settingsQueue[Len(settingsQueue)]
\* the content of the report that was sent last
SentContent == Slice(sent[1], headerLength, Len(sent[1]) - 2)
\* value * 1000 is an unsigned 16-bit integer
Fits16(value) ==
  /\ Trunc(value, Unit \div 1000) >= 0
  /\ Trunc(value, Unit \div 1000) <= 65535

\* C11: a write one of whose setpoints, scaled by 1000, does not fit an
\* unsigned 16-bit integer is not transmitted: whenever a write has been
\* sent, the setpoints its report carries fit.
C11_OverflowRejected ==
  /\ (event.op = "setBasicOutput" /\ event.result = "sent")
       => Fits16(LastCandidate.vo_set) /\ Fits16(LastCandidate.io_set)
  /\ (event.op = "setBasicSettings" /\ event.result = "sent")
       => Fits16(LastCandidate.ovp_set) /\ Fits16(LastCandidate.ocp_set)

\* the candidate appended to queue is old with the supplied arguments in place
Overrides(old, args, queue) ==
  /\ Len(queue) = Len(settingsQueue) + 1
  /\ LET candidate == queue[Len(queue)]
     IN /\ DOMAIN candidate = DOMAIN old
        /\ \A f \in DOMAIN old :
             candidate[f] = IF f \in DOMAIN args /\ args[f] # None
                            THEN args[f][1] ELSE old[f]

\* C12: the candidate a write builds is the confirmed settings of the moment
\* of the call with exactly the supplied (not undefined) fields overridden.
C12_CandidateIsMerge ==
  [][/\ \A args \in OutputArgs, ok \in BOOLEAN :
          setBasicOutput(Supplied(args), ok)
            => Overrides(settings, args, settingsQueue')
     /\ \A args \in SettingArgs, ok \in BOOLEAN :
          setBasicSettings(Supplied(args), ok)
            => Overrides(settings, args, settingsQueue')]_vars

\* C12 witness: on settings that differ from the reported ones in two fields,
\* a write that supplied ocp_set alone is pending
C12_Witness ==
  /\ event.op = "setBasicSettings"
  /\ settings # Baseline
  /\ Len(settingsQueue) >= 1
  /\ LastCandidate.ocp_set = 4 * Unit
  /\ LastCandidate.ocp_set # settings.ocp_set
  /\ LastCandidate.state = settings.state
  /\ LastCandidate.vo_set = settings.vo_set
  /\ LastCandidate.ovp_set = settings.ovp_set

\* the u16 at offset off of content c is value scaled by 1000 (for a value
\* that fits)
Carries(c, off, value) ==
  Fits16(value) => Div1000(getUint16(c, off)) = value

\* C14 (amended): the 10-byte content of a write carries the marker at offset
\* 0 and the fields the marker targets, and zero elsewhere: the output write
\* (0x20) state at offset 1, vo_set and io_set as little-endian u16 at 2 and
\* 4, and zero at offsets 6 to 9; the protection write (0x40) ovp_set and
\* ocp_set as little-endian u16 at 6 and 8, and zero at offsets 1 to 5.
C14_PayloadTargetsMarker ==
  /\ (event.op = "setBasicOutput" /\ event.result = "sent")
       => /\ Len(SentContent) = 10
          /\ getUint8(SentContent, 0) = MagicOUTPUT
          /\ getUint8(SentContent, 1) = LastCandidate.state
          /\ Carries(SentContent, 2, LastCandidate.vo_set)
          /\ Carries(SentContent, 4, LastCandidate.io_set)
          /\ getUint16(SentContent, 6) = 0
          /\ getUint16(SentContent, 8) = 0
  /\ (event.op = "setBasicSettings" /\ event.result = "sent")
       => /\ Len(SentContent) = 10
          /\ getUint8(SentContent, 0) = MagicSETTING
          /\ getUint8(SentContent, 1) = 0
          /\ getUint16(SentContent, 2) = 0
          /\ getUint16(SentContent, 4) = 0
          /\ Carries(SentContent, 6, LastCandidate.ovp_set)
          /\ Carries(SentContent, 8, LastCandidate.ocp_set)

\* C14 witness: an output write went out for a candidate that has the output
\* on and non-zero protection settings
C14_Witness ==
  /\ event.op = "setBasicOutput"
  /\ event.result = "sent"
  /\ LastCandidate.state = 1
  /\ LastCandidate.ovp_set > 0
  /\ LastCandidate.ocp_set > 0
  /\ getUint8(SentContent, 1) = 1
  /\ getUint16(SentContent, 6) = 0

\* C14 as stated: the content of either write carries all five fields of the
\* candidate
C14_AsStated ==
  (event.op \in WriteOps /\ event.result = "sent")
    => /\ getUint8(SentContent, 1) = LastCandidate.state
       /\ Carries(SentContent, 2, LastCandidate.vo_set)
       /\ Carries(SentContent, 4, LastCandidate.io_set)
       /\ Carries(SentContent, 6, LastCandidate.ovp_set)
       /\ Carries(SentContent, 8, LastCandidate.ocp_set)

(***************************************************************************)
(* Further properties of the session.                                      *)
(***************************************************************************)
\* the five fields SettingsFrame carries: output off, 5 V, 1 A, OVP 30.5 V,
\* OCP 5.05 A
ReportedSettings ==
  [state |-> 0, vo_set |-> 5 * Unit, io_set |-> Unit,
   ovp_set |-> 305 * (Unit \div 10), ocp_set |-> 505 * (Unit \div 100)]
SettingsFields == { "state", "vo_set", "io_set", "ovp_set", "ocp_set" }
Complete(s) == DOMAIN s = SettingsFields

\* C13: a valid BASIC_SET report with the ten-byte settings content replaces
\* the confirmed settings by the five decoded fields, whether or not writes
\* are pending, and leaves the pending writes as they were.
C13_SettingsRefresh ==
  [][(event'.op = "inputreport" /\ inputReportHandler(SettingsFrame))
       => /\ settings' = ReportedSettings
          /\ UNCHANGED << settingsQueue, queueSeq >>]_vars

\* C13 witness: the settings were refreshed while a write with another
\* candidate was pending
C13_Witness ==
  /\ event = Ev("inputreport", "receiveBasicSettings")
  /\ settings = ReportedSettings
  /\ Len(settingsQueue) >= 1
  /\ Head(settingsQueue) # settings

\* C15: a valid report whose function has no case in the handler changes
\* neither telemetry, confirmed settings, system information nor the pending
\* writes.
C15_UnhandledDropped ==
  [][(event'.op = "inputreport" /\ inputReportHandler(UnhandledFrame))
       => UNCHANGED << settings, settingsQueue, queueSeq, info, system >>]_vars

\* C15 witness: an unhandled report arrived with everything loaded and a
\* write pending
C15_Witness ==
  /\ event = Ev("inputreport", "Unhandled function")
  /\ SettingsLoaded(settings)
  /\ info # Undefined
  /\ system # Undefined
  /\ Len(settingsQueue) >= 1

\* C16: pending writes do not block the poll: whenever a poll timer runs and
\* the device is open, the tick can take place and transmit the BASIC_INFO
\* request, however many writes are pending.
C16_PollNotBlocked ==
  (timers > 0 /\ device = "open")
    => ENABLED (pollTick(TRUE) /\ sent' = << BasicInfoRequest >>)

\* C16 witness: a poll went out with two writes pending, one of them
\* unacknowledged at the device
C16_Witness ==
  /\ event = Ev("poll", "sent")
  /\ sent = << BasicInfoRequest >>
  /\ Len(settingsQueue) >= 2
  /\ inFlight >= 1

\* C17: the confirmed settings are unset only before the first load and are
\* a complete five-field record afterwards, and every step that changes them
\* installs one whole source: the decoded settings report or one whole
\* pending candidate.
C17_AtomicUpdate ==
  /\ [](settings = Undefined \/ Complete(settings))
  /\ [][settings' # settings
          => \/ settings' = ReportedSettings
             \/ \E i \in 1..Len(settingsQueue) : settings' = settingsQueue[i]]_vars

\* C18: the polls that are transmitted come from the timer that the open
\* connection's own settings read started: no BASIC_INFO poll request of a
\* timer started for a connection that has ended is transmitted, so none goes
\* out while the settings read of the open connection is still pending.
C18_NoPollAfterDisconnect ==
  [][(event'.op = "poll" /\ event'.result = "sent") => reads = 0]_vars

\* C19: when a connection has been opened, no confirmed settings and no
\* pending write of an earlier connection are left.
C19_SessionPerConnection ==
  event = Ev("connect", "open")
    => (settings = Undefined /\ settingsQueue = << >>)

\* C20: pending writes that reached the device and receive no acknowledgement
\* are evicted, so that their number stays below the bound of the queue.
C20_PendingBounded ==
  inFlight = Len(settingsQueue) => Len(settingsQueue) < MaxQueue

(***************************************************************************)
(* sendReport over every kind of argument, the absent content included.    *)
(***************************************************************************)
FrameInputs ==
  [functionId : FunctionIds,
   content : { ContentOf(n) : n \in ContentLengths } \cup { NoContent },
   sequence : SequenceArgs]

InitFrames ==
  /\ device = "null"
  /\ settings = Undefined
  /\ settingsQueue = << >>
  /\ queueSeq = << >>
  /\ inFlight = 0
  /\ info = Undefined
  /\ system = Undefined
  /\ reads = 0
  /\ updateLoop = "unset"
  /\ timers = 0
  /\ sent = << >>
  /\ tHistory = << >>
  /\ vHistory = << >>
  /\ iHistory = << >>
  /\ pHistory = << >>
  /\ \E args \in FrameInputs : event = [op |-> "input", args |-> args]

SpecFrames == InitFrames /\ [][NextCodec]_vars

\* the number of bytes sendReport puts in front of the content
HeaderBytes(args) == IF args.sequence = Null THEN 3 ELSE 4
\* the content bytes the caller handed over; none when content is absent
SuppliedContent(args) ==
  IF args.content = NoContent THEN << >> ELSE args.content
Encoded == event.op = "encode"

\* C21: every encoded report ends with the checksum of all the bytes before
\* it, low byte first; its first byte is 0xFB and its length byte is the
\* number of content bytes that follow it.
C21_ChecksumCoversFrame ==
  Encoded =>
    LET report == sent[1]
        n == Len(report)
        h == HeaderBytes(event.args)
    IN /\ n >= h + 2
       /\ report[n - 1] = crc16(SubSeq(report, 1, n - 2)) % 256
       /\ report[n] = crc16(SubSeq(report, 1, n - 2)) \div 256
       /\ report[1] = 251
       /\ report[2] = event.args.functionId
       /\ report[h] = n - h - 2

\* C21 witness: a report with a sequence byte and a 250-byte content
C21_Witness ==
  /\ Encoded
  /\ event.args.sequence = 255
  /\ Len(sent[1]) = 256
  /\ sent[1][4] = 250

\* C22: the sequence byte is sent exactly when a sequence number was
\* supplied, the number 0 included: then byte 2 is the sequence and the
\* content starts at offset 4; without one the content starts at offset 3
\* and the report is one byte shorter.
C22_SequenceByte ==
  Encoded =>
    LET report == sent[1]
        c == EffectiveContent(event.args.content)
    IN IF event.args.sequence # Null
       THEN /\ report[3] = event.args.sequence
            /\ SubSeq(report, 5, 4 + Len(c)) = c
            /\ Len(report) = Len(c) + 6
       ELSE /\ SubSeq(report, 4, 3 + Len(c)) = c
            /\ Len(report) = Len(c) + 5

\* C22 witness: a content was sent with the sequence number 0
C22_Witness ==
  /\ Encoded
  /\ event.args.sequence = 0
  /\ Len(SuppliedContent(event.args)) = MaxContent
  /\ sent[1][3] = 0
  /\ sent[1][4] = MaxContent

\* C28: an absent content is sent as one zero byte with length byte 1; a
\* content that was supplied and is empty is sent with length byte 0 and no
\* content bytes.
C28_DefaultContent ==
  Encoded =>
    LET report == sent[1]
        h == HeaderBytes(event.args)
    IN /\ event.args.content = NoContent
            => /\ report[h] = 1
               /\ report[h + 1] = 0
               /\ Len(report) = h + 3
       /\ event.args.content = << >>
            => /\ report[h] = 0
               /\ Len(report) = h + 2

\* C28 witness: an empty content was supplied and sent without a sequence
C28_Witness ==
  /\ Encoded
  /\ event.args.content = << >>
  /\ event.args.sequence = Null
  /\ Len(sent[1]) = 5

(***************************************************************************)
(* crc16 over byte sequences.                                              *)
(***************************************************************************)
CrcBytes == { 0, 1, 128, 255 }
\* the ASCII codes of "123456789", the check string of the CRC catalogues
CheckString == << 49, 50, 51, 52, 53, 54, 55, 56, 57 >>
CrcInputs ==
  UNION { [1..n -> CrcBytes] : n \in 0..MaxCrcLen }
    \cup { CheckString, ContentOf(65), ContentOf(250) }

InitCrc ==
  /\ device = "null"
  /\ settings = Undefined
  /\ settingsQueue = << >>
  /\ queueSeq = << >>
  /\ inFlight = 0
  /\ info = Undefined
  /\ system = Undefined
  /\ reads = 0
  /\ updateLoop = "unset"
  /\ timers = 0
  /\ sent = << >>
  /\ tHistory = << >>
  /\ vHistory = << >>
  /\ iHistory = << >>
  /\ pHistory = << >>
  /\ \E bytes \in CrcInputs : event = [op |-> "input", bytes |-> bytes]

\* crc16(buffer)
checksum ==
  /\ event.op = "input"
  /\ event' = [op |-> "crc16", bytes |-> event.bytes,
               crc |-> crc16(event.bytes)]
  /\ UNCHANGED << device, session, inFlight, polling, sent, history >>

NextCrc == checksum

SpecCrc == InitCrc /\ [][NextCrc]_vars

\* CRC-16/MODBUS, defined bit by bit: the register is a 16-bit shift register
\* fed with the message bits, least significant bit of each byte first; a
\* feedback bit of 1 inverts the taps 15, 13 and 0 after the shift
Toggle(x, k) == IF (x \div (2 ^ k)) % 2 = 1 THEN x - 2 ^ k ELSE x + 2 ^ k
RefCrc(bytes) ==
  LET n == Len(bytes)
      bit[reg \in 0..65535, b \in 0..1] ==
        IF (reg + b) % 2 = 1
        THEN Toggle(Toggle(Toggle(reg \div 2, 15), 13), 0)
        ELSE reg \div 2
      \* a byte is fed bit by bit, bit 0 first
      byte[reg \in 0..65535, i \in 1..n, k \in 0..8] ==
        IF k = 0 THEN reg
        ELSE bit[byte[reg, i, k - 1], (bytes[i] \div (2 ^ (k - 1))) % 2]
      \* the register after the bytes lo..hi, halving the range
      range[reg \in 0..65535, lo \in 1..(n + 1), hi \in 0..n] ==
        IF lo > hi THEN reg
        ELSE IF lo = hi THEN byte[reg, lo, 8]
        ELSE range[range[reg, lo, (lo + hi) \div 2], (lo + hi) \div 2 + 1, hi]
  IN range[65535, 1, n]

\* C23: crc16 is CRC-16/MODBUS: it equals the bit-serial reference started
\* from 0xFFFF for every input, is 0xFFFF for the empty sequence, is 0x4B37
\* for the check string "123456789", and lies in 0..65535.
C23_CrcIsModbus ==
  event.op = "crc16" =>
    /\ event.crc = RefCrc(event.bytes)
    /\ event.crc \in 0..65535
    /\ event.bytes = << >> => event.crc = 65535
    /\ event.bytes = CheckString => event.crc = 19255

\* C23 witness: the checksum of the check string has been computed
C23_Witness ==
  /\ event.op = "crc16"
  /\ event.bytes = CheckString
  /\ event.crc = 19255

(***************************************************************************)
(* Reports corrupted between sendReport and inputReportHandler.            *)
(***************************************************************************)
CorruptInputs ==
  [functionId : { FnBASIC_INFO, FnBASIC_SET, FnNONE },
   content : { ContentOf(n) : n \in 0..MaxContent } \cup { NoContent },
   sequence : { Null, 0, 255 }]

InitCorrupt ==
  /\ device = "null"
  /\ settings = Undefined
  /\ settingsQueue = << >>
  /\ queueSeq = << >>
  /\ inFlight = 0
  /\ info = Undefined
  /\ system = Undefined
  /\ reads = 0
  /\ updateLoop = "unset"
  /\ timers = 0
  /\ sent = << >>
  /\ tHistory = << >>
  /\ vHistory = << >>
  /\ iHistory = << >>
  /\ pHistory = << >>
  /\ \E args \in CorruptInputs : event = [op |-> "input", args |-> args]

\* one of the two checksum bytes arrives with another value
corruptChecksum ==
  /\ event.op = "encode"
  /\ \E i \in { Len(sent[1]) - 1, Len(sent[1]) } :
       \E v \in (0..255) \ { sent[1][i] } :
         sent' = << [sent[1] EXCEPT ![i] = v] >>
  /\ event' = [op |-> "corrupt", args |-> event.args, at |-> "checksum"]
  /\ UNCHANGED << device, session, inFlight, polling, history >>

\* one bit of the address, function, sequence or content bytes arrives
\* inverted
flipBit ==
  /\ event.op = "encode"
  /\ \E i \in (1..(Len(sent[1]) - 2)) \ { HeaderBytes(event.args) } :
       \E k \in 0..7 :
         sent' = << [sent[1] EXCEPT ![i] = Toggle(@, k)] >>
  /\ event' = [op |-> "corrupt", args |-> event.args, at |-> "body"]
  /\ UNCHANGED << device, session, inFlight, polling, history >>

\* inputReportHandler reads the header, the content and the checksum of the
\* report that arrived
received ==
  /\ event.op = "corrupt"
  /\ event' = [op |-> "received", args |-> event.args, at |-> event.at,
               decoded |-> Decode(sent[1])]
  /\ UNCHANGED << device, session, inFlight, polling, sent, history >>

NextCorrupt == encode \/ corruptChecksum \/ flipBit \/ received

SpecCorrupt == InitCorrupt /\ [][NextCorrupt]_vars

\* C24 (amended): for every report encoded with a sequence number, another
\* value in either checksum byte, or one inverted bit in the address,
\* function, sequence or content bytes, makes the handler's checksum
\* comparison fail.
C24_CorruptionDetected ==
  (event.op = "received" /\ event.args.sequence # Null)
    => event.decoded.result = "Checksum Failed"

\* C24 witness: an inverted content bit of a report with a sequence number
\* failed the comparison, and so did an altered checksum byte
C24_Witness ==
  /\ event.op = "received"
  /\ event.args.sequence = 0
  /\ Len(SuppliedContent(event.args)) = MaxContent
  /\ event.at = "body"
  /\ SubSeq(sent[1], 1, 4) = ReportHeader(event.args.functionId,
                                           event.args.content, 0)
  /\ event.decoded.result = "Checksum Failed"

\* C24 as stated: the corruption is reported as a checksum mismatch for
\* every encoded report, those without a sequence byte included
C24_AsStated ==
  event.op = "received" => event.decoded.result = "Checksum Failed"

\* the 16 content bytes of InfoFrame as they are on the wire
InfoBytes ==
  << 32, 78, 224, 46, 244, 1, 56, 74, 49, 1, 54, 1, 136, 19, 1, 0 >>
\* what they stand for: 20 V in, 12 V and 0.5 A out, 19 V maximum, 30.5 and
\* 31 degrees, 5 V rail, output mode 1, work state 0
ReportedInfo ==
  [vIn |-> 20 * Unit, vOut |-> 12 * Unit, iOut |-> Unit \div 2,
   voMax |-> 19 * Unit, temp1 |-> 305 * (Unit \div 10), temp2 |-> 31 * Unit,
   dc5V |-> 5 * Unit, outMode |-> 1, workSt |-> 0]

\* C25: a valid BASIC_INFO report is decoded as little-endian 16-bit fields
\* vIn, vOut, iOut, voMax (thousandths), temp1, temp2 (tenths), dc5V
\* (thousandths) and the bytes outMode, workSt: raw 12000 and 500 become
\* 12.000 V and 0.500 A.
C25_BasicInfoLayout ==
  /\ SubSeq(InfoFrame, headerLength + 1, headerLength + 16) = InfoBytes
  /\ event = Ev("inputreport", "receiveBasicInfo") => info = ReportedInfo

\* C25 witness: the telemetry report has been decoded
C25_Witness ==
  /\ event = Ev("inputreport", "receiveBasicInfo")
  /\ info = ReportedInfo
  /\ info.vOut = 12 * Unit
  /\ 2 * info.iOut = Unit

(***************************************************************************)
(* A setpoint written and read back.                                       *)
(***************************************************************************)
\* setpoints in thousandths: 0 to 1.1, and 5, 12.345 and 65.535
Setpoints == (0..MaxMilli) \cup { 5000, 12345, 65535 }

InitScale ==
  /\ device = "open"
  /\ settings = Baseline
  /\ settingsQueue = << >>
  /\ queueSeq = << >>
  /\ inFlight = 0
  /\ info = Undefined
  /\ system = Undefined
  /\ reads = 1
  /\ updateLoop = "unset"
  /\ timers = 0
  /\ sent = << >>
  /\ tHistory = << >>
  /\ vHistory = << >>
  /\ iHistory = << >>
  /\ pHistory = << >>
  /\ event = Ev("inputreport", "receiveBasicSettings")

\* setBasicOutput({ vo_set }) with one of the setpoints
writeSetpoint ==
  /\ settingsQueue = << >>
  /\ \E n \in Setpoints :
       setBasicOutput([vo_set |-> n * (Unit \div 1000)], TRUE)

\* the ten content bytes that were written come back in a BASIC_SET report
\* and the handler decodes them
readBack ==
  /\ event = Ev("setBasicOutput", "sent")
  /\ Dispatch(Decode(DeviceFrame(FnBASIC_SET, 0,
       Slice(sent[1], headerLength, Len(sent[1]) - 2))))
  /\ inFlight' = inFlight
  /\ sent' = << >>
  /\ UNCHANGED << device, polling, history >>

NextScale == writeSetpoint \/ readBack

SpecScale == InitScale /\ [][NextScale]_vars

\* C26: for a setpoint that is a whole number of thousandths, the 16-bit
\* field written is exactly the setpoint times 1000, and the settings
\* decoder turns the written field back into the setpoint.
C26_ScalingRoundTrip ==
  /\ event = Ev("setBasicOutput", "sent")
       => /\ getUint16(SentContent, 2) * (Unit \div 1000)
               = LastCandidate.vo_set
          /\ getUint16(SentContent, 2)
               = Times1000Exact(LastCandidate.vo_set)
  /\ (event = Ev("inputreport", "receiveBasicSettings")
        /\ Len(settingsQueue) = 1)
       => settings.vo_set = settingsQueue[1].vo_set

\* the handler's outcomes for a report it cannot use
DecodeFailures == { "Checksum Failed", "Unhandled function" }
\* SystemFrame decoded: OTP 80 C, OPP 105 W, backlight 4, volume 2
ReportedSystem == receiveSystemInfo(Decoded[SystemFrame].content)

\* C27: a report that fails the checksum or has no handler leaves the
\* device, the session and the polling as they were, and the next valid
\* telemetry, settings, acknowledgement or system report is then handled and
\* applied to that state as to any other.
C27_UsableAfterFailure ==
  /\ [][(event'.op = "inputreport" /\ event'.result \in DecodeFailures)
          => UNCHANGED << device, session, polling >>]_vars
  /\ [](event.op = "inputreport" /\ event.result \in DecodeFailures
          => /\ ENABLED (inputReportHandler(InfoFrame)
                           /\ info' = ReportedInfo
                           /\ UNCHANGED << settings, settingsQueue, system >>)
             /\ ENABLED (inputReportHandler(SettingsFrame)
                           /\ settings' = ReportedSettings
                           /\ UNCHANGED << settingsQueue, info, system >>)
             /\ ENABLED (inputReportHandler(AckReport[1])
                           /\ settings' = Pop(settingsQueue).value
                           /\ settingsQueue' = Pop(settingsQueue).rest
                           /\ UNCHANGED << info, system >>)
             /\ ENABLED (inputReportHandler(SystemFrame)
                           /\ system' = ReportedSystem
                           /\ UNCHANGED << settings, settingsQueue, info >>))

\* C27 witness: a report failed the checksum while settings and telemetry
\* were loaded and a write was pending
C27_Witness ==
  /\ event = Ev("inputreport", "Checksum Failed")
  /\ device = "open"
  /\ SettingsLoaded(settings)
  /\ info = ReportedInfo
  /\ Len(settingsQueue) >= 1

\* a write that got past the 'Settings not loaded' check
Issued(e) == e.op \in WriteOps /\ e.result # "Settings not loaded"

C30_ConnectSequence ==
  /\ [](event = Ev("connect", "open")
          => /\ sent = << SystemInfoRequest, DeviceInfoRequest, BasicSetRead >>
             /\ SubSeq(BasicSetRead, 1, 5) = << 251, 53, 0, 1, 128 >>
             /\ Len(BasicSetRead) = 7)
  /\ [](event = Ev("getBasicSettings", "rejected") => timers = 0)
  /\ [][(event'.op = "poll" /\ event'.result = "sent")
          => (reads = 0 /\ updateLoop = "live")]_vars

(***************************************************************************)
(* Reports of every type arriving on an open device, two of each record.   *)
(***************************************************************************)
\* BASIC_INFO: vIn 19.5 V, vOut 5 V, iOut 1 A, voMax 18.5 V, 40 and 41.5 C,
\* 5.1 V rail, CC, normal
InfoFrame2 ==
  DeviceFrame(FnBASIC_INFO, 0,
    U16Bytes(19500) \o U16Bytes(5000) \o U16Bytes(1000) \o U16Bytes(18500)
      \o U16Bytes(400) \o U16Bytes(415) \o U16Bytes(5100) \o << 0, 0 >>)
\* SYSTEM_INFO: OTP 70 C, OPP 60 W, backlight 1, volume 0, flags 0 and 1
SystemFrame2 ==
  DeviceFrame(FnSYSTEM_INFO, 0,
    U16Bytes(70) \o U16Bytes(600) \o << 1, 0, 0, 1 >>)

\* reports with a correct checksum and a content too short for their type
ShortReports ==
  { DeviceFrame(FnBASIC_INFO, 0, SubSeq(InfoBytes, 1, 15)),
    DeviceFrame(FnBASIC_INFO, 0, << >>),
    DeviceFrame(FnSYSTEM_INFO, 0, << 80, 0, 26, 4, 4, 2, 1 >>),
    DeviceFrame(FnBASIC_SET, 0, << 0 >>),
    DeviceFrame(FnBASIC_SET, 0, << >>),
    DeviceFrame(FnBASIC_SET, 0, << 1, 1 >>),
    DeviceFrame(FnBASIC_SET, 0,
      << MagicREAD, 1 >> \o U16Bytes(12000) \o U16Bytes(2500)
        \o U16Bytes(31000) \o << 160 >>) }

RecordReports ==
  { InfoFrame, InfoFrame2, SystemFrame, SystemFrame2, DeviceInfoFrame,
    SettingsFrame, AckFrame(1) } \cup ShortReports
DecodedRecord == [data \in RecordReports |-> Decode(data)]

InitRecords ==
  /\ device = "open"
  /\ settings = Baseline
  /\ settingsQueue = << >>
  /\ queueSeq = << >>
  /\ inFlight = 0
  /\ info = Undefined
  /\ system = Undefined
  /\ reads = 1
  /\ updateLoop = "unset"
  /\ timers = 0
  /\ sent = << >>
  /\ tHistory = << >>
  /\ vHistory = << >>
  /\ iHistory = << >>
  /\ pHistory = << >>
  /\ event = Ev("inputreport", "receiveBasicSettings")

\* the 'inputreport' listener, for one of these reports
reportArrives(data) ==
  /\ device = "open"
  /\ Dispatch(DecodedRecord[data])
  /\ inFlight' = Acknowledged(inFlight, DecodedRecord[data])
  /\ sent' = << >>
  /\ UNCHANGED << device, polling, history >>

NextRecords ==
  \/ \E data \in RecordReports : reportArrives(data)
  \/ \E partial \in OutputInputs : setBasicOutput(partial, TRUE)

SpecRecords == InitRecords /\ [][NextRecords]_vars

ReportedInfo2 ==
  [vIn |-> 195 * (Unit \div 10), vOut |-> 5 * Unit, iOut |-> Unit,
   voMax |-> 185 * (Unit \div 10), temp1 |-> 40 * Unit,
   temp2 |-> 415 * (Unit \div 10), dc5V |-> 51 * (Unit \div 10),
   outMode |-> 0, workSt |-> 0]
ReportedSystem2 ==
  [otp |-> 70 * Unit, opp |-> 60 * Unit, backlight |-> 1, volume |-> 0,
   reverse_protection |-> 0, audio_out |-> 1]
others == << settings, settingsQueue, queueSeq >>

\* C31: a valid BASIC_INFO report replaces the telemetry with what it
\* carries and leaves settings, system information and pending writes as
\* they were; a SYSTEM_INFO report replaces the system information only; a
\* DEVICE_INFO report changes nothing of the session; the telemetry changes
\* in no other step, so it is always that of the last BASIC_INFO report.
C31_OwnRecordOnly ==
  [][/\ reportArrives(InfoFrame)
          => info' = ReportedInfo /\ UNCHANGED << others, system >>
     /\ reportArrives(InfoFrame2)
          => info' = ReportedInfo2 /\ UNCHANGED << others, system >>
     /\ reportArrives(SystemFrame)
          => system' = ReportedSystem /\ UNCHANGED << others, info >>
     /\ reportArrives(SystemFrame2)
          => system' = ReportedSystem2 /\ UNCHANGED << others, info >>
     /\ reportArrives(DeviceInfoFrame) => UNCHANGED session
     /\ info' # info => event' = Ev("inputreport", "receiveBasicInfo")
     /\ system' # system => event' = Ev("inputreport", "receiveSystemInfo")
    ]_vars

\* C31 witness: a second telemetry report has replaced the first one while
\* settings and system information were loaded and a write was pending
C31_Witness ==
  /\ event = Ev("inputreport", "receiveBasicInfo")
  /\ info = ReportedInfo2
  /\ system = ReportedSystem
  /\ settings = Baseline
  /\ Len(settingsQueue) >= 1

(***************************************************************************)
(* Two writes back to back, acknowledged in issue order.                   *)
(***************************************************************************)
\* changeVoltage to 12 V, then changeCurrent to 2.5 A
VoltageChange == [vo_set |-> 12 * Unit]
CurrentChange == [io_set |-> 25 * (Unit \div 10)]
TelemetryReports ==
  { InfoFrame, InfoFrame2, SystemFrame, SystemFrame2, DeviceInfoFrame }

\* setBasicOutput({ vo_set }) with nothing pending
firstWrite ==
  /\ settings = Baseline
  /\ settingsQueue = << >>
  /\ setBasicOutput(VoltageChange, TRUE)

\* setBasicOutput({ io_set }) while the first write is pending
secondWrite ==
  /\ settings = Baseline
  /\ Len(settingsQueue) = 1
  /\ setBasicOutput(CurrentChange, TRUE)

\* the device has received both writes and acknowledges the oldest one it
\* has not acknowledged yet
acknowledge ==
  /\ inFlight >= 1
  /\ Len(settingsQueue) = 2 \/ settings # Baseline
  /\ reportArrives(AckFrame(1))

\* responses to the polls and to the requests of connect() arrive in between
telemetry ==
  /\ settings # Undefined
  /\ \E data \in TelemetryReports : reportArrives(data)

NextLost == firstWrite \/ secondWrite \/ acknowledge \/ telemetry

SpecLost == InitRecords /\ [][NextLost]_vars

\* the settings with both changes: 12 V and 2.5 A
BothChanges ==
  [Baseline EXCEPT !.vo_set = 12 * Unit, !.io_set = 25 * (Unit \div 10)]
BothAcknowledged ==
  settingsQueue = << >> /\ inFlight = 0 /\ settings # Baseline

\* C32: when a voltage write and a current write are issued back to back
\* and the device acknowledges both in issue order, the confirmed settings
\* after the two acknowledgements hold both changes.
C32_NoLostUpdate ==
  BothAcknowledged => settings = BothChanges

\* C33: a report with a correct checksum whose content is too short for its
\* type (BASIC_INFO under 16 bytes, SYSTEM_INFO under 8, BASIC_SET under 10
\* and no single non-zero byte) changes neither telemetry, confirmed
\* settings, system information nor pending writes.
C33_ShortContentDropped ==
  [][\A data \in ShortReports :
       reportArrives(data)
         => /\ DecodedRecord[data].result = "ok"
            /\ UNCHANGED session
            /\ event' = Ev("inputreport", "RangeError")]_vars

\* C33 witness: a short report arrived with everything loaded and a write
\* pending
C33_Witness ==
  /\ event = Ev("inputreport", "RangeError")
  /\ settings = Baseline
  /\ info = ReportedInfo2
  /\ system = ReportedSystem2
  /\ Len(settingsQueue) >= 1

(***************************************************************************)
(* The element's graph history: DP100Element overrides receiveBasicInfo    *)
(* and keeps the last samples of time, voltage, current and power.         *)
(***************************************************************************)
\* telemetry records delivered to the element
MaxSamples == 3005

\* this.refreshRate, in milliseconds
refreshRate == 10

\* this.vHistory.length > 30 * 1000 / this.refreshRate, the quotient being
\* a real number
OverLimit(length) == length * refreshRate > 30 * 1000

\* Date.now(): a clock that has advanced by one tick at every record
Now == IF tHistory = << >> THEN 0 ELSE tHistory[Len(tHistory)] + 1

\* vOut * iOut in watts; exact for the readings delivered here
Power(vOut, iOut) == (vOut * iOut) \div Unit

\* Array.prototype.shift(), for its effect on the array
Shift(array) == IF array = << >> THEN << >> ELSE Tail(array)

\* the override with a shift of pHistory left out
receiveBasicInfoUneven(record) ==
  LET over == OverLimit(Len(vHistory) + 1)
      Kept(array) == IF over THEN Shift(array) ELSE array
  IN /\ tHistory' = Kept(Append(tHistory, Now))
     /\ vHistory' = Kept(Append(vHistory, record.vOut))
     /\ iHistory' = Kept(Append(iHistory, record.iOut))
     /\ pHistory' = Append(pHistory, Power(record.vOut, record.iOut))

\* DP100Element.receiveBasicInfo after its call of super: push one sample
\* on each array and, if vHistory is then over the limit, shift each
receiveBasicInfoElement(record) ==
  LET over == OverLimit(Len(vHistory) + 1)
      Kept(array) == IF over THEN Shift(array) ELSE array
  IN /\ tHistory' = Kept(Append(tHistory, Now))
     /\ vHistory' = Kept(Append(vHistory, record.vOut))
     /\ iHistory' = Kept(Append(iHistory, record.iOut))
     /\ pHistory' = Kept(Append(pHistory, Power(record.vOut, record.iOut)))

\* the reports the element is sent: two telemetry readings, which alternate,
\* a telemetry report that is too short, and system information
HistoryReports ==
  {InfoFrame, InfoFrame2, SystemFrame,
   DeviceFrame(FnBASIC_INFO, 0, SubSeq(InfoBytes, 1, 15))}

\* the handler reached receiveBasicInfo
IsTelemetry(d) ==
  /\ d.result = "ok"
  /\ d.functionType = FnBASIC_INFO
  /\ InRange(d.content, 0, 16)

\* the 'inputreport' listener of the element, for one of these reports
elementReport(data) ==
  /\ device = "open"
  /\ Now < MaxSamples
  /\ IsTelemetry(DecodedRecord[data])
       => info # receiveBasicInfo(DecodedRecord[data].content)
  /\ Dispatch(DecodedRecord[data])
  /\ inFlight' = Acknowledged(inFlight, DecodedRecord[data])
  /\ sent' = << >>
  /\ IF IsTelemetry(DecodedRecord[data])
     THEN receiveBasicInfoElement(receiveBasicInfo(DecodedRecord[data].content))
     ELSE UNCHANGED history
  /\ UNCHANGED << device, polling >>

NextHistory == \E data \in HistoryReports : elementReport(data)

\* samples the element already holds where a run may start
Prefilled == 2998

\* the i-th telemetry reading of the stream that starts with InfoFrame
Reading(i) == IF i % 2 = 1 THEN ReportedInfo ELSE ReportedInfo2

\* the element after n readings of that stream, n under the limit
Recorded(n) ==
  /\ tHistory = [i \in 1..n |-> i - 1]
  /\ vHistory = [i \in 1..n |-> Reading(i).vOut]
  /\ iHistory = [i \in 1..n |-> Reading(i).iOut]
  /\ pHistory = [i \in 1..n |-> Power(Reading(i).vOut, Reading(i).iOut)]
  /\ info = IF n = 0 THEN Undefined ELSE Reading(n)
  /\ event = Ev("inputreport",
                IF n = 0 THEN "receiveBasicSettings" ELSE "receiveBasicInfo")

\* a connected element with its arrays empty, or the same element further
\* along the same run, a few samples before the arrays are full
InitHistory ==
  /\ device = "open"
  /\ settings = Baseline
  /\ settingsQueue = << >>
  /\ queueSeq = << >>
  /\ inFlight = 0
  /\ system = Undefined
  /\ reads = 1
  /\ updateLoop = "unset"
  /\ timers = 0
  /\ sent = << >>
  /\ \E n \in {0, Prefilled} : Recorded(n)

SpecHistory == InitHistory /\ [][NextHistory]_vars

\* every state a run starts in is one the run from the empty arrays reaches
SpecHistoryCold == InitRecords /\ [][NextHistory]_vars

\* the arrays as they are once the new sample has replaced the oldest
Advanced(array, next, sample) ==
  /\ Len(next) = Len(array)
  /\ \A i \in 1..(Len(array) - 1) : next[i] = array[i + 1]
  /\ next[Len(next)] = sample

\* C34: after any sequence of telemetry records the four history arrays
\* have equal length, that length never exceeds 30*1000/refreshRate (3000),
\* and once they are full every new sample drops the oldest of each array.
C34_HistoryWindow ==
  /\ [](/\ Len(tHistory) = Len(vHistory)
        /\ Len(iHistory) = Len(vHistory)
        /\ Len(pHistory) = Len(vHistory)
        /\ Len(vHistory) * refreshRate <= 30 * 1000
        /\ Len(vHistory) <= 3000)
  /\ [][\A data \in HistoryReports :
          (/\ elementReport(data)
           /\ IsTelemetry(DecodedRecord[data])
           /\ Len(vHistory) = 3000)
            => /\ Advanced(tHistory, tHistory', Now)
               /\ Advanced(vHistory, vHistory', info'.vOut)
               /\ Advanced(iHistory, iHistory', info'.iOut)
               /\ Advanced(pHistory, pHistory',
                           Power(info'.vOut, info'.iOut))]_vars

\* C34 witness: the arrays are full and the three oldest samples are gone
C34_Witness ==
  /\ Len(vHistory) = 3000
  /\ Len(pHistory) = 3000
  /\ tHistory[1] = 3
  /\ tHistory[3000] = 3002
  /\ vHistory[1] # vHistory[2]
====
